---- MODULE Spec2Model ----
(***************************************************************************)
(* Radio Station Builder (src/radio_station_gui.py, src/build_radio_show.py)*)
(*                                                                         *)
(* The model has three threads of control, as the program has:             *)
(*   - the Tk main loop (control thread): every callback it runs           *)
(*     (start_build, build_complete, check_and_build, start_watching,      *)
(*     stop_watching) is one atomic action;                                *)
(*   - build worker threads, started by start_build, running build_show;   *)
(*   - watchdog observer threads, which run on_segment_change line by      *)
(*     line, interleaved with the main loop's callbacks.                   *)
(*                                                                         *)
(* Time is counted in ticks of 500 ms.  A Tk timer never fires before its  *)
(* delay has elapsed and may fire any time after.                          *)
(*                                                                         *)
(* Widgets and the log are not part of the state; of the status lines only *)
(* the watcher's (watch_status_var) is.                                    *)
(***************************************************************************)
EXTENDS Integers, Sequences, FiniteSets

VARIABLES
    is_building,   \* self.is_building
    pydub,         \* AudioSegment is not None (fixed when the module is imported)
    threads,       \* build worker threads, counted by their place in build_show
    completes,     \* build_complete callbacks waiting in the Tk queue (after(0, ...))
    outcome,       \* how the build that finished last ended
    is_watching,   \* self.is_watching
    observer,      \* self.observer is not None
    watch_timer,   \* self.watch_timer: 0 (None), a pending timer, or -1 (a timer no longer pending)
    last_change_time, \* self.last_change_time: the age in ticks of the time stamp (-1: None)
    watch_status,  \* what start_watching, stop_watching and check_and_build last put in watch_status_var
    timers,        \* Tk's debounce timers: ticks left for each id; -1 (not pending)
    start_timers,  \* Tk's after(500, start_build) timers, waiting and due
    handler,       \* the observer thread of self.observer: its place in on_segment_change
    orphans,       \* observer threads of stopped observers still inside on_segment_change
    auto_watch_enabled, \* self.auto_watch_enabled: the check box of the watch tab
    observers,     \* Observer objects started and not stopped with observer.stop()
    event,         \* the suffix of event.src_path of the event SegmentHandler was given last ("": none yet)
    burst,         \* history: the debounce timers set by the burst of events in progress, and
                   \* the evaluations of theirs that found every segment present and fresh
    block,         \* one call of create_song_block_with_tracking: its arguments and locals,
                   \* and the attempts that have failed in a row
    show,          \* the loop over the voice segments that assembles the show: its locals,
                   \* and the song blocks it has appended
    call           \* one call of a function of the program: its arguments and what it returns

buildVars == <<is_building, pydub, threads, completes, outcome, show, call>>

watchVars == <<is_watching, observer, watch_timer, last_change_time, watch_status,
               timers, start_timers, handler, orphans, event, burst,
               auto_watch_enabled, observers>>

vars == <<is_building, pydub, threads, completes, outcome,
          is_watching, observer, watch_timer, last_change_time, watch_status,
          timers, start_timers, handler, orphans, event, burst,
          auto_watch_enabled, observers, block, show, call>>

(***************************************************************************)
(* Bounds                                                                  *)
(***************************************************************************)
\* build worker threads alive at once
MaxThreads == 2
\* build_complete callbacks waiting at once
MaxCompletes == 2
\* resolved voice segments of one build
MaxSegs == 3
\* songs in the pool of one build
MaxPool == 3
\* debounce timers pending at once
MaxTimers == 2
\* after(500, start_build) timers pending at once
MaxStartTimers == 1
\* observer threads alive at once: the thread of self.observer, and threads
\* of stopped observers that are still inside on_segment_change
MaxObservers == 1
\* Observer objects started and not stopped at once
MaxStarted == 2
\* identifiers in self.segments
NumSegments == 2
\* songs asked of one song block (songs_between)
MaxCount == 2
\* evaluations counted for one burst of events
MaxEvaluations == 2
\* auto_watch_delay, in seconds (the spin box allows 1..30)
AutoWatchDelay == 1

\* ticks per second: the tick is the 500 ms of after(500, self.start_build)
TicksPerSecond == 2
\* delay_ms = auto_watch_delay * 1000 (line 578), in ticks
DelayTicks == AutoWatchDelay * TicksPerSecond

(***************************************************************************)
(* build_show: what one run of the worker does, as a function of what it   *)
(* finds on disk and in the configuration                                  *)
(***************************************************************************)
Roles == {"intro", "middle", "outro"}

RoleSeqs == UNION {[1..n -> Roles] : n \in 0..MaxSegs}

\* What a build reads: the folders, the resolved segments (by role, in
\* configured order), the freshness verdict, the pool and how many of its
\* songs decode (the first ones of the shuffled list), the voice segment whose
\* file does not decode (0: none), the ducking setting, and whether a buffer
\* operation of the ducking step raises.
BuildInputs ==
    [test_mode : BOOLEAN,
     voice_dir_exists : BOOLEAN,
     songs_dir_exists : BOOLEAN,
     roles : RoleSeqs,
     require_fresh_files : BOOLEAN,
     all_fresh : BOOLEAN,
     songs : 0..MaxPool,
     decodable : 0..MaxPool,
     voice_fail : 0..MaxSegs,
     enable_ducking : BOOLEAN,
     duck_fail : BOOLEAN]

\* The loop over the voice segments if a voice file that does not decode
\* were skipped with a warning, as a song is.
RECURSIVE assemble_skips_failed(_, _, _, _, _)
assemble_skips_failed(roles, i, have, canDecode, fail) ==
    IF i > Len(roles) THEN "exported"
    ELSE IF i = fail THEN assemble_skips_failed(roles, i + 1, have, canDecode, fail)
    ELSE IF roles[i] = "intro"
         THEN IF canDecode THEN assemble_skips_failed(roles, i + 1, TRUE, canDecode, fail)
              ELSE "spin"
    ELSE IF ~have THEN "error"
    ELSE IF roles[i] = "outro" THEN assemble_skips_failed(roles, i + 1, TRUE, canDecode, fail)
    ELSE IF canDecode THEN assemble_skips_failed(roles, i + 1, TRUE, canDecode, fail)
    ELSE "spin"

\* The loop over the voice segments (lines 996-1031), from segment i on.
\* have: final_show is not None.  A song block is built after an intro and
\* after a middle segment; with no decodable song its loop never ends.
RECURSIVE assemble(_, _, _, _, _)
assemble(roles, i, have, canDecode, fail) ==
    IF i > Len(roles) THEN "exported"
    ELSE IF i = fail THEN "error"
    ELSE IF roles[i] = "intro"
         THEN IF canDecode THEN assemble(roles, i + 1, TRUE, canDecode, fail) ELSE "spin"
    ELSE IF ~have THEN "error"
    ELSE IF roles[i] = "outro" THEN assemble(roles, i + 1, TRUE, canDecode, fail)
    ELSE IF canDecode THEN assemble(roles, i + 1, TRUE, canDecode, fail) ELSE "spin"

\* regular_build without the test of lines 977-978; with an empty pool the
\* song block is a second of silence (lines 1348-1349) and the loop goes on.
regular_build_no_pool_check(in) ==
    IF ~in.voice_dir_exists THEN "error"
    ELSE IF ~in.songs_dir_exists THEN "error"
    ELSE IF Len(in.roles) = 0 THEN "error"
    ELSE IF in.require_fresh_files /\ ~in.all_fresh THEN "error"
    ELSE assemble(in.roles, 1, FALSE, in.decodable > 0 \/ in.songs = 0, in.voice_fail)

\* The regular build, lines 936-1056.  Its ducking step is
\* create_ducked_segment, which catches what its buffer operations raise and
\* returns the voice (lines 1267-1269): in.duck_fail does not change how the
\* build ends.
regular_build(in) ==
    IF ~in.voice_dir_exists THEN "error"
    ELSE IF ~in.songs_dir_exists THEN "error"
    ELSE IF Len(in.roles) = 0 THEN "error"
    ELSE IF in.require_fresh_files /\ ~in.all_fresh THEN "error"
    ELSE IF in.songs = 0 THEN "error"
    ELSE assemble(in.roles, 1, FALSE, in.decodable > 0, in.voice_fail)

\* The voice segment of the test preview, lines 1093-1100: the first one
\* that is neither intro nor outro, or else the first one.
test_segment(roles) ==
    IF \E i \in 1..Len(roles) : roles[i] = "middle"
    THEN CHOOSE i \in 1..Len(roles) :
            /\ roles[i] = "middle"
            /\ \A j \in 1..(i - 1) : roles[j] # "middle"
    ELSE 1

\* The test preview, lines 1067-1205: no song block loop, no freshness check;
\* it loads songs[0], one voice segment and songs[1].  The ducking of lines
\* 1134-1174 is inside the try of the whole build only: what it raises ends
\* the build in the except clause of lines 1207-1209.
test_build(in) ==
    IF ~in.voice_dir_exists THEN "error"
    ELSE IF ~in.songs_dir_exists THEN "error"
    ELSE IF in.songs < 2 THEN "error"
    ELSE IF Len(in.roles) = 0 THEN "error"
    ELSE IF in.decodable < 2 \/ in.voice_fail = test_segment(in.roles) THEN "error"
    ELSE IF in.enable_ducking /\ in.duck_fail THEN "error"
    ELSE "exported"

\* The runs a worker can make: <<test mode, how the build ends>>.
BuildRuns ==
    {<<in.test_mode, IF in.test_mode THEN test_build(in) ELSE regular_build(in)>> :
        in \in {x \in BuildInputs : x.decodable <= x.songs /\ (x.duck_fail => x.enable_ducking)}}

(***************************************************************************)
(* State after __init__                                                    *)
(***************************************************************************)
NoThreads == [start |-> 0, spin |-> 0, test_fin |-> 0]

\* None, where a song buffer is expected.  A song buffer is
\* [song |-> n, faded |-> f]: the n-th song added to its block, as decoded
\* (f false) or as returned by fade_in(fade).fade_out(fade) (f true).
None == [song |-> 0, faded |-> FALSE]

\* no call of create_song_block_with_tracking is followed
NoBlock == [pc |-> "off", songs |-> <<>>, count |-> 0, song_index |-> 0, songs_added |-> 0,
            failed |-> 0, last_song |-> None]

\* build_show is not in its loop over the voice segments
NoShow == [pc |-> "off", cli |-> FALSE, roles |-> <<>>, i |-> 0, have |-> FALSE,
           songs |-> <<>>, count |-> 0, song_index |-> 0, blocks |-> <<>>,
           ducking_enabled |-> FALSE, last_song_for_ducking |-> [after |-> 0, buffer |-> None],
           ducked |-> <<>>]

\* no call is followed
NoCall == [fn |-> "none"]

nthreads == threads.start + threads.spin + threads.test_fin

InitBuild ==
    /\ is_building = FALSE
    /\ pydub \in BOOLEAN
    /\ threads = NoThreads
    /\ completes = 0
    /\ outcome = "none"


(***************************************************************************)
(* start_build (lines 905-926)                                             *)
(***************************************************************************)
start_build ==
    IF is_building
    THEN UNCHANGED <<is_building, threads, outcome>>
    ELSE IF ~pydub
    THEN UNCHANGED <<is_building, threads, outcome>>
    ELSE /\ nthreads < MaxThreads
         /\ is_building' = TRUE
         /\ outcome' = "none"
         /\ threads' = [threads EXCEPT !.start = @ + 1]

\* The Build button, or any other direct call of start_build.
ManualStartBuild ==
    /\ start_build
    /\ UNCHANGED <<pydub, completes>>
    /\ UNCHANGED watchVars
    /\ UNCHANGED <<block, show, call>>

(***************************************************************************)
(* The worker thread: build_show (lines 928-1063), build_test_show         *)
(* (lines 1065-1212)                                                       *)
(***************************************************************************)
\* A regular build up to its finally clause, which queues build_complete.
\* A build whose song block loop never ends stays in the loop.
build_show ==
    /\ threads.start > 0
    /\ \E run \in BuildRuns :
        /\ run[1] = FALSE
        /\ IF run[2] = "spin"
           THEN /\ threads' = [threads EXCEPT !.start = @ - 1, !.spin = @ + 1]
                /\ UNCHANGED <<completes, outcome>>
           ELSE /\ completes < MaxCompletes
                /\ threads' = [threads EXCEPT !.start = @ - 1]
                /\ completes' = completes + 1
                /\ outcome' = run[2]
    /\ UNCHANGED <<is_building, pydub>>
    /\ UNCHANGED watchVars
    /\ UNCHANGED <<block, show, call>>

\* The song block loop of a pool in which no song decodes: one more failed
\* attempt (lines 1357-1374), and the loop goes on.
song_block_spin ==
    /\ threads.spin > 0
    /\ UNCHANGED vars

\* Test mode: build_show calls build_test_show, whose finally clause (line
\* 1212) queues build_complete ...
build_test_show ==
    /\ threads.start > 0
    /\ completes < MaxCompletes
    /\ \E run \in BuildRuns :
        /\ run[1] = TRUE
        /\ outcome' = run[2]
    /\ threads' = [threads EXCEPT !.start = @ - 1, !.test_fin = @ + 1]
    /\ completes' = completes + 1
    /\ UNCHANGED <<is_building, pydub>>
    /\ UNCHANGED watchVars
    /\ UNCHANGED <<block, show, call>>

\* ... and on its return (line 934) build_show's own finally clause (line
\* 1063) queues build_complete again.
build_show_finally ==
    /\ threads.test_fin > 0
    /\ completes < MaxCompletes
    /\ threads' = [threads EXCEPT !.test_fin = @ - 1]
    /\ completes' = completes + 1
    /\ UNCHANGED <<is_building, pydub, outcome>>
    /\ UNCHANGED watchVars
    /\ UNCHANGED <<block, show, call>>

(***************************************************************************)
(* build_complete (lines 1271-1276), run by the main loop                  *)
(***************************************************************************)
\* build_complete without line 1273
build_complete_keeps_flag ==
    /\ completes > 0
    /\ completes' = completes - 1
    /\ UNCHANGED <<is_building, pydub, threads, outcome>>
    /\ UNCHANGED watchVars
    /\ UNCHANGED <<block, show, call>>

build_complete ==
    /\ completes > 0
    /\ completes' = completes - 1
    /\ is_building' = FALSE
    /\ UNCHANGED <<pydub, threads, outcome>>
    /\ UNCHANGED watchVars
    /\ UNCHANGED <<block, show, call>>

(***************************************************************************)
(* Tk timers                                                               *)
(***************************************************************************)
TimerIds == 1..MaxTimers

NoTimers == [id \in TimerIds |-> -1]

pending == {id \in TimerIds : timers[id] >= 0}

\* A reference to timer id once that timer has fired or been cancelled: Tk
\* never reuses an id, so the reference names no timer any more (-1).
retire(ref, id) == IF id > 0 /\ ref = id THEN -1 ELSE ref

retire_rec(rec, id) == [rec EXCEPT !.tmr = retire(@, id)]

\* root.after_cancel(ref) for a reference that is not None: the timer it
\* names, if still pending, is removed; a reference to a timer no longer
\* pending cancels nothing.
after_cancel(ref) == [id \in TimerIds |-> IF id = ref THEN -1 ELSE timers[id]]

\* The burst of events in progress once timer id has fired or been cancelled.
forget(id) == [burst EXCEPT !.timers = @ \ {id}]

\* root.after(delay_ms, self.check_and_build): Tk hands out a new id.
new_timer == CHOOSE id \in TimerIds : timers[id] < 0 /\ \A j \in TimerIds : (timers[j] < 0) => id <= j

(***************************************************************************)
(* Observer threads.  An event is delivered to SegmentHandler by the       *)
(* observer's thread, one event at a time; the handler is on_segment_change*)
(* (lines 564-579).  pc is the line the thread is to execute next.         *)
(***************************************************************************)
Off == [pc |-> "off", tmr |-> 0]

Idle == [pc |-> "idle", tmr |-> 0]

Dead == [pc |-> "dead", tmr |-> 0]

InHandler == {"h574", "h575", "c575", "h578", "h579"}

OrphanIds == 1..MaxObservers

\* who: 0 is the thread of self.observer, k > 0 the k-th orphan.
thread(who) == IF who = 0 THEN handler ELSE orphans[who]

\* where a thread goes when its handler returns, and when it raises
returned(who) == IF who = 0 THEN Idle ELSE Off

raised(who) == IF who = 0 THEN Dead ELSE Off

set_thread(who, rec, id) ==
    /\ handler' = IF who = 0 THEN rec ELSE retire_rec(handler, id)
    /\ orphans' = [k \in OrphanIds |-> IF k = who THEN rec ELSE retire_rec(orphans[k], id)]

\* SegmentHandler.on_created / on_modified (lines 532-539) and lines 566-571:
\* the time stamp, and the two after(0, ...) calls that put the status and
\* the log line in the Tk queue, served by the main loop.
\* Only a path ending in '.mp3' is passed on.  An event that arrives before
\* the deadline of a timer of the burst in progress belongs to that burst;
\* any other event begins a new burst.
Exts == {".mp3", ".wav"}

\* the extensions of a voice segment file (lines 597 and 1304)
VoiceExts == {".mp3", ".wav", ".m4a", ".ogg"}

on_segment_change(ext) ==
    /\ observer
    /\ handler.pc = "idle"
    /\ IF ext = ".mp3"
       THEN /\ last_change_time' = 0
            /\ handler' = [pc |-> "h574", tmr |-> 0]
            /\ burst' = IF \E id \in burst.timers : timers[id] > 0
                        THEN burst
                        ELSE [timers |-> {}, evals |-> 0]
       ELSE UNCHANGED <<last_change_time, handler, burst>>
    /\ event' = ext
    /\ UNCHANGED <<auto_watch_enabled, observers>>
    /\ UNCHANGED <<is_watching, observer, watch_timer, watch_status, timers,
                   start_timers, orphans>>
    /\ UNCHANGED buildVars
    /\ UNCHANGED block

\* line 574: if self.watch_timer:
line_574(who) ==
    /\ thread(who).pc = "h574"
    /\ set_thread(who, [pc |-> IF watch_timer # 0 THEN "h575" ELSE "h578", tmr |-> 0], 0)
    /\ UNCHANGED <<is_watching, observer, watch_timer, last_change_time, watch_status,
                   timers, start_timers, burst>>
    /\ UNCHANGED event
    /\ UNCHANGED <<auto_watch_enabled, observers>>
    /\ UNCHANGED buildVars
    /\ UNCHANGED block

\* line 575, the argument: self.watch_timer is read a second time, and
\* after_cancel(None) raises ValueError, which ends the observer thread.
line_575(who) ==
    /\ thread(who).pc = "h575"
    /\ set_thread(who, IF watch_timer = 0 THEN raised(who)
                       ELSE [pc |-> "c575", tmr |-> watch_timer], 0)
    /\ UNCHANGED <<is_watching, observer, watch_timer, last_change_time, watch_status,
                   timers, start_timers, burst>>
    /\ UNCHANGED event
    /\ UNCHANGED <<auto_watch_enabled, observers>>
    /\ UNCHANGED buildVars
    /\ UNCHANGED block

\* line 575, the call: self.root.after_cancel(<the id read>), served by the main loop
call_575(who) ==
    /\ thread(who).pc = "c575"
    /\ timers' = after_cancel(thread(who).tmr)
    /\ watch_timer' = retire(watch_timer, thread(who).tmr)
    /\ set_thread(who, [pc |-> "h578", tmr |-> 0], thread(who).tmr)
    /\ burst' = forget(thread(who).tmr)
    /\ UNCHANGED <<is_watching, observer, last_change_time, watch_status, start_timers>>
    /\ UNCHANGED event
    /\ UNCHANGED <<auto_watch_enabled, observers>>
    /\ UNCHANGED buildVars
    /\ UNCHANGED block

\* lines 578-579, the call: self.root.after(delay_ms, self.check_and_build),
\* served by the main loop
line_578(who) ==
    /\ thread(who).pc = "h578"
    /\ pending # TimerIds
    /\ timers' = [timers EXCEPT ![new_timer] = DelayTicks]
    /\ set_thread(who, [pc |-> "h579", tmr |-> new_timer], 0)
    /\ burst' = [burst EXCEPT !.timers = @ \cup {new_timer}]
    /\ UNCHANGED <<is_watching, observer, watch_timer, last_change_time, watch_status,
                   start_timers>>
    /\ UNCHANGED event
    /\ UNCHANGED <<auto_watch_enabled, observers>>
    /\ UNCHANGED buildVars
    /\ UNCHANGED block

\* line 579, the assignment: self.watch_timer = <the id returned>
line_579(who) ==
    /\ thread(who).pc = "h579"
    /\ watch_timer' = thread(who).tmr
    /\ set_thread(who, returned(who), 0)
    /\ UNCHANGED <<is_watching, observer, last_change_time, watch_status, timers,
                   start_timers, burst>>
    /\ UNCHANGED event
    /\ UNCHANGED <<auto_watch_enabled, observers>>
    /\ UNCHANGED buildVars
    /\ UNCHANGED block

(***************************************************************************)
(* check_and_build (lines 581-637), run by the main loop when a debounce   *)
(* timer expires                                                           *)
(***************************************************************************)
Segments == 1..NumSegments

FileStates == {"missing", "stale", "fresh"}

\* The voice folder as check_and_build sees it: for each identifier, whether
\* <identifier><ext> exists for one of the four extensions, and whether its
\* age is at most freshness_minutes.
Snapshots == [Segments -> FileStates]

missing(snap) == {s \in Segments : snap[s] = "missing"}

stale_files(snap) == {s \in Segments : snap[s] = "stale"}

\* The timer that expired is pending no more.
expired(id) ==
    /\ timers' = [timers EXCEPT ![id] = -1]
    /\ handler' = retire_rec(handler, id)
    /\ orphans' = [k \in OrphanIds |-> retire_rec(orphans[k], id)]

\* lines 634-637: every segment is present and fresh
ready(id) ==
    /\ start_timers.wait + start_timers.due < MaxStartTimers
    /\ watch_status' = "building"
    /\ start_timers' = [start_timers EXCEPT !.wait = @ + 1]
    /\ burst' = [timers |-> burst.timers \ {id},
                 evals |-> IF id \in burst.timers /\ burst.evals < MaxEvaluations
                           THEN burst.evals + 1 ELSE burst.evals]

\* check_and_build without the return of line 613
check_and_build_no_return(id, snap) ==
    /\ timers[id] = 0
    /\ expired(id)
    /\ watch_timer' = 0
    /\ IF is_building
       THEN /\ burst' = forget(id)
            /\ UNCHANGED <<watch_status, start_timers>>
       ELSE IF stale_files(snap) # {}
       THEN /\ watch_status' = "waiting_fresh"
            /\ burst' = forget(id)
            /\ UNCHANGED start_timers
       ELSE ready(id)
    /\ UNCHANGED <<is_watching, observer, last_change_time>>
    /\ UNCHANGED event
    /\ UNCHANGED <<auto_watch_enabled, observers>>
    /\ UNCHANGED buildVars
    /\ UNCHANGED block

\* check_and_build trying again after auto_watch_delay when a file is stale
check_and_build_retry(id, snap) ==
    /\ timers[id] = 0
    /\ handler' = retire_rec(handler, id)
    /\ orphans' = [k \in OrphanIds |-> retire_rec(orphans[k], id)]
    /\ IF is_building
       THEN /\ timers' = [timers EXCEPT ![id] = -1]
            /\ watch_timer' = 0
            /\ burst' = forget(id)
            /\ UNCHANGED <<watch_status, start_timers>>
       ELSE IF missing(snap) # {}
       THEN /\ timers' = [timers EXCEPT ![id] = -1]
            /\ watch_timer' = 0
            /\ watch_status' = "waiting"
            /\ burst' = forget(id)
            /\ UNCHANGED start_timers
       ELSE IF stale_files(snap) # {}
       THEN /\ timers' = [timers EXCEPT ![id] = DelayTicks]
            /\ watch_timer' = id
            /\ watch_status' = "waiting_fresh"
            /\ burst' = forget(id)
            /\ UNCHANGED start_timers
       ELSE /\ timers' = [timers EXCEPT ![id] = -1]
            /\ watch_timer' = 0
            /\ ready(id)
    /\ UNCHANGED <<is_watching, observer, last_change_time>>
    /\ UNCHANGED event
    /\ UNCHANGED <<auto_watch_enabled, observers>>
    /\ UNCHANGED buildVars
    /\ UNCHANGED block

check_and_build(id, snap) ==
    /\ timers[id] = 0
    /\ expired(id)
    /\ watch_timer' = 0
    /\ IF is_building
       THEN /\ burst' = forget(id)
            /\ UNCHANGED <<watch_status, start_timers>>
       ELSE IF missing(snap) # {}
       THEN /\ watch_status' = "waiting"
            /\ burst' = forget(id)
            /\ UNCHANGED start_timers
       ELSE IF stale_files(snap) # {}
       THEN /\ watch_status' = "waiting_fresh"
            /\ burst' = forget(id)
            /\ UNCHANGED start_timers
       ELSE ready(id)
    /\ UNCHANGED <<is_watching, observer, last_change_time>>
    /\ UNCHANGED event
    /\ UNCHANGED <<auto_watch_enabled, observers>>
    /\ UNCHANGED buildVars
    /\ UNCHANGED block

\* The start_build that check_and_build deferred by 500 ms (line 637).
AutoStartBuild ==
    /\ start_timers.due > 0
    /\ start_timers' = [start_timers EXCEPT !.due = @ - 1]
    /\ start_build
    /\ UNCHANGED <<pydub, completes>>
    /\ UNCHANGED <<is_watching, observer, watch_timer, last_change_time, watch_status,
                   timers, handler, orphans, event, burst, auto_watch_enabled, observers>>
    /\ UNCHANGED <<block, show, call>>

(***************************************************************************)
(* start_watching (lines 513-547), stop_watching (lines 549-562)           *)
(***************************************************************************)
\* start_watching without the return of lines 520-521: a second Observer is
\* started and self.observer is bound to it
start_watching_again(folder_exists, enabled) ==
    /\ IF ~folder_exists
       THEN /\ auto_watch_enabled' = FALSE
            /\ UNCHANGED <<is_watching, observer, watch_status, handler, observers>>
       ELSE /\ Cardinality({k \in OrphanIds : orphans[k].pc # "off"}) < MaxObservers
            /\ observers < MaxStarted
            /\ handler.pc \in {"off", "idle", "dead"}
            /\ observer' = TRUE
            /\ observers' = observers + 1
            /\ handler' = Idle
            /\ is_watching' = TRUE
            /\ watch_status' = "watching"
            /\ auto_watch_enabled' = enabled
    /\ UNCHANGED <<watch_timer, last_change_time, timers, start_timers, orphans, burst>>
    /\ UNCHANGED event
    /\ UNCHANGED buildVars
    /\ UNCHANGED block

\* enabled: self.auto_watch_enabled when start_watching is entered.  The
\* watchdog library is taken to be installed (line 515).
start_watching(folder_exists, enabled) ==
    /\ IF is_watching
       THEN /\ auto_watch_enabled' = enabled
            /\ UNCHANGED <<is_watching, observer, watch_status, handler, observers>>
       ELSE IF ~folder_exists
       THEN /\ auto_watch_enabled' = FALSE
            /\ UNCHANGED <<is_watching, observer, watch_status, handler, observers>>
       ELSE /\ Cardinality({k \in OrphanIds : orphans[k].pc # "off"}) < MaxObservers
            /\ observers < MaxStarted
            /\ observer' = TRUE
            /\ observers' = observers + 1
            /\ handler' = Idle
            /\ is_watching' = TRUE
            /\ watch_status' = "watching"
            /\ auto_watch_enabled' = enabled
    /\ UNCHANGED <<watch_timer, last_change_time, timers, start_timers, orphans, burst>>
    /\ UNCHANGED event
    /\ UNCHANGED buildVars
    /\ UNCHANGED block

\* observer.stop(); observer.join(timeout=2): the observer thread ends when
\* the handler it is in returns.  While the main thread waits in join, no Tk
\* call of the observer thread is served, so the thread runs on to its next
\* Tk call (or to its end) and no further; after 2 s stop_watching goes on.
\* joined(rec): <<the thread after these 2 s, self.watch_timer after them>>.
joined(rec) ==
    IF rec.pc = "h574" /\ watch_timer = 0 THEN <<[pc |-> "h578", tmr |-> 0], watch_timer>>
    ELSE IF rec.pc \in {"h574", "h575"} /\ watch_timer # 0
         THEN <<[pc |-> "c575", tmr |-> watch_timer], watch_timer>>
    ELSE IF rec.pc = "h575" THEN <<Off, watch_timer>>
    ELSE IF rec.pc = "h579" THEN <<Off, rec.tmr>>
    ELSE IF rec.pc \in {"idle", "dead"} THEN <<Off, watch_timer>>
    ELSE <<rec, watch_timer>>

free_orphan == CHOOSE k \in OrphanIds : orphans[k].pc = "off" /\ \A j \in OrphanIds : orphans[j].pc = "off" => k <= j

\* stop_watching, if it also gave up the build in flight
stop_watching_resets_build(enabled) ==
    /\ IF observer
       THEN LET after_join == joined(handler)
                rec == after_join[1]
                wt == after_join[2]
            IN  /\ rec.pc # "off" => \E k \in OrphanIds : orphans[k].pc = "off"
                /\ handler' = Off
                /\ orphans' = [k \in OrphanIds |->
                                 IF rec.pc # "off" /\ k = free_orphan
                                 THEN retire_rec(rec, wt)
                                 ELSE retire_rec(orphans[k], wt)]
                /\ timers' = IF wt # 0 THEN [id \in TimerIds |-> IF id = wt THEN -1 ELSE timers[id]]
                             ELSE timers
                /\ burst' = forget(wt)
       ELSE /\ handler' = handler
            /\ orphans' = [k \in OrphanIds |-> retire_rec(orphans[k], watch_timer)]
            /\ timers' = IF watch_timer # 0 THEN after_cancel(watch_timer) ELSE timers
            /\ burst' = forget(watch_timer)
    /\ observer' = FALSE
    /\ watch_timer' = 0
    /\ is_watching' = FALSE
    /\ watch_status' = "stopped"
    /\ UNCHANGED <<last_change_time, start_timers>>
    /\ observers' = IF observer THEN observers - 1 ELSE observers
    /\ auto_watch_enabled' = enabled
    /\ UNCHANGED event
    /\ is_building' = FALSE
    /\ UNCHANGED <<pydub, threads, completes, outcome, show, call>>
    /\ UNCHANGED block

stop_watching(enabled) ==
    /\ IF observer
       THEN LET after_join == joined(handler)
                rec == after_join[1]
                wt == after_join[2]
            IN  /\ rec.pc # "off" => \E k \in OrphanIds : orphans[k].pc = "off"
                /\ handler' = Off
                /\ orphans' = [k \in OrphanIds |->
                                 IF rec.pc # "off" /\ k = free_orphan
                                 THEN retire_rec(rec, wt)
                                 ELSE retire_rec(orphans[k], wt)]
                /\ timers' = IF wt # 0 THEN [id \in TimerIds |-> IF id = wt THEN -1 ELSE timers[id]]
                             ELSE timers
                /\ burst' = forget(wt)
       ELSE /\ handler' = handler
            /\ orphans' = [k \in OrphanIds |-> retire_rec(orphans[k], watch_timer)]
            /\ timers' = IF watch_timer # 0 THEN after_cancel(watch_timer) ELSE timers
            /\ burst' = forget(watch_timer)
    /\ observer' = FALSE
    /\ watch_timer' = 0
    /\ is_watching' = FALSE
    /\ watch_status' = "stopped"
    /\ UNCHANGED <<last_change_time, start_timers>>
    /\ observers' = IF observer THEN observers - 1 ELSE observers
    /\ auto_watch_enabled' = enabled
    /\ UNCHANGED event
    /\ UNCHANGED buildVars
    /\ UNCHANGED block

\* toggle_watch (lines 506-511), the command of the check box: the click
\* has changed self.auto_watch_enabled before toggle_watch reads it.
toggle_watch(folder_exists) ==
    IF ~auto_watch_enabled
    THEN start_watching(folder_exists, TRUE)
    ELSE stop_watching(FALSE)

(***************************************************************************)
(* Time                                                                    *)
(***************************************************************************)
Tick ==
    /\ timers' = [id \in TimerIds |-> IF timers[id] > 0 THEN timers[id] - 1 ELSE timers[id]]
    /\ start_timers' = [wait |-> 0, due |-> start_timers.due + start_timers.wait]
    /\ last_change_time' = IF last_change_time \in 0..(DelayTicks - 1)
                           THEN last_change_time + 1
                           ELSE last_change_time
    /\ \/ timers' # timers
       \/ start_timers' # start_timers
       \/ last_change_time' # last_change_time
    /\ UNCHANGED <<is_watching, observer, watch_timer, watch_status, handler, orphans, burst>>
    /\ UNCHANGED event
    /\ UNCHANGED <<auto_watch_enabled, observers>>
    /\ UNCHANGED buildVars
    /\ UNCHANGED block

InitWatch ==
    /\ is_watching = FALSE
    /\ observer = FALSE
    /\ watch_timer = 0
    /\ last_change_time = -1
    /\ watch_status = ""
    /\ timers = NoTimers
    /\ start_timers = [wait |-> 0, due |-> 0]
    /\ handler = Off
    /\ orphans = [k \in OrphanIds |-> Off]
    /\ event = ""
    /\ burst = [timers |-> {}, evals |-> 0]
    /\ auto_watch_enabled \in BOOLEAN
    /\ observers = 0

NextWatch ==
    \/ \E ext \in Exts : on_segment_change(ext)
    \/ \E who \in 0..MaxObservers : line_574(who)
    \/ \E who \in 0..MaxObservers : line_575(who)
    \/ \E who \in 0..MaxObservers : call_575(who)
    \/ \E who \in 0..MaxObservers : line_578(who)
    \/ \E who \in 0..MaxObservers : line_579(who)
    \/ \E id \in TimerIds, snap \in Snapshots : check_and_build(id, snap)
    \/ AutoStartBuild
    \/ \E folder_exists \in BOOLEAN : start_watching(folder_exists, auto_watch_enabled)
    \/ stop_watching(auto_watch_enabled)
    \/ \E folder_exists \in BOOLEAN : toggle_watch(folder_exists)
    \/ Tick

NextBuild ==
    \/ ManualStartBuild
    \/ build_show
    \/ song_block_spin
    \/ build_test_show
    \/ build_show_finally
    \/ build_complete

Next == NextBuild \/ NextWatch

Init ==
    /\ InitBuild
    /\ InitWatch
    /\ block = NoBlock
    /\ show = NoShow
    /\ call = NoCall

Spec == Init /\ [][Next]_vars

\* Worker threads run on, and the main loop serves the callbacks queued with
\* after(0, ...).
FairSpec ==
    /\ Spec
    /\ WF_vars(build_show)
    /\ WF_vars(build_test_show)
    /\ WF_vars(build_show_finally)
    /\ WF_vars(build_complete)

(***************************************************************************)
(* create_song_block_with_tracking (lines 1346-1376) on its own, one step  *)
(* per turn of its loop, for every pool, count and song_index.             *)
(* create_song_block (lines 1316-1344) has the same loop.                  *)
(***************************************************************************)
\* A pool: for each song of the list, whether its file decodes.
Pools == UNION {[1..n -> BOOLEAN] : n \in 0..MaxPool}

decoding(songs) == {i \in 1..Len(songs) : songs[i]}

\* random.shuffle(songs), line 1360: the same files in any order
shuffle(songs) ==
    {p \in [1..Len(songs) -> BOOLEAN] : Cardinality(decoding(p)) = Cardinality(decoding(songs))}

InitBlock ==
    /\ InitBuild
    /\ InitWatch
    /\ block \in {b \in [pc : {"call"}, songs : Pools, count : 1..MaxCount,
                         song_index : 0..MaxPool, songs_added : {0}, failed : {0},
                         last_song : {None}] :
                     b.song_index <= Len(b.songs)}
    /\ show = NoShow
    /\ call = NoCall

\* lines 1348-1355
block_call ==
    /\ block.pc = "call"
    /\ block' = [block EXCEPT !.pc = IF Len(block.songs) = 0 THEN "returned" ELSE "while"]
    /\ UNCHANGED <<buildVars, watchVars>>

\* lines 1357-1374: one turn of the while loop.  songs[song_index] of the
\* source is songs[song_index + 1] here.  Line 1368 binds song to the faded
\* buffer, and line 1371 keeps that one as last_song.
block_turn ==
    /\ block.pc = "while"
    /\ block.songs_added < block.count
    /\ LET wrap == block.song_index >= Len(block.songs)
           index == IF wrap THEN 0 ELSE block.song_index
       IN  \E songs \in IF wrap THEN shuffle(block.songs) ELSE {block.songs} :
               block' = [block EXCEPT !.songs = songs,
                                      !.song_index = index + 1,
                                      !.songs_added = IF songs[index + 1] THEN @ + 1 ELSE @,
                                      !.failed = IF songs[index + 1] THEN 0
                                                 ELSE IF @ <= MaxPool THEN @ + 1 ELSE @,
                                      !.last_song =
                                          IF songs[index + 1]
                                          THEN [song |-> block.songs_added + 1, faded |-> TRUE]
                                          ELSE @]
    /\ UNCHANGED <<buildVars, watchVars>>

\* line 1376
block_return ==
    /\ block.pc = "while"
    /\ block.songs_added >= block.count
    /\ block' = [block EXCEPT !.pc = "returned"]
    /\ UNCHANGED <<buildVars, watchVars>>

NextBlock ==
    \/ block_call
    \/ block_turn
    \/ block_return

\* The thread that made the call runs on.
SpecBlock == InitBlock /\ [][NextBlock]_vars /\ WF_vars(NextBlock)

(***************************************************************************)
(* The assembly of the show: the loop over the voice segments of           *)
(* build_show (src/radio_station_gui.py, lines 996-1031) and of            *)
(* build_radio_show (src/build_radio_show.py, lines 170-207), one step per *)
(* segment.  Every voice file is taken to decode.                          *)
(***************************************************************************)
\* create_song_block of src/build_radio_show.py, lines 101-117: the songs
\* from song_index to the end of the list
RECURSIVE take_to_end(_, _, _, _)
take_to_end(songs, count, song_index, songs_added) ==
    IF songs_added < count /\ song_index < Len(songs)
    THEN take_to_end(songs, count, song_index + 1,
                     IF songs[song_index + 1] THEN songs_added + 1 ELSE songs_added)
    ELSE [songs_added |-> songs_added, song_index |-> song_index]

\* lines 122-138: the list again from its start, until a song fails
RECURSIVE loop_back(_, _, _, _)
loop_back(songs, count, song_index, songs_added) ==
    IF songs_added >= count
    THEN [songs_added |-> songs_added, song_index |-> song_index]
    ELSE IF songs[(song_index % Len(songs)) + 1]
    THEN loop_back(songs, count, song_index + 1, songs_added + 1)
    ELSE [songs_added |-> songs_added, song_index |-> song_index + 1]

\* create_song_block of src/build_radio_show.py (lines 90-140): how many
\* songs the block holds, and the new song index
create_song_block(songs, count, song_index) ==
    IF Len(songs) = 0
    THEN [songs_added |-> 0, song_index |-> song_index]
    ELSE LET first == take_to_end(songs, count, song_index, 0)
         IN  IF first.songs_added < count
             THEN loop_back(songs, count, 0, first.songs_added)
             ELSE first

\* The loop begins: voice_segments and songs are not empty (lines 960-961
\* and 977-978; lines 152-161 of build_radio_show.py), song_index is 0.
InitShow ==
    /\ InitBuild
    /\ InitWatch
    /\ block = NoBlock
    /\ call = NoCall
    /\ show \in {sh \in [pc : {"for"}, cli : BOOLEAN, roles : RoleSeqs, i : {1},
                         have : {FALSE}, songs : Pools, count : 1..MaxCount,
                         song_index : {0}, blocks : {<<>>},
                         ducking_enabled : BOOLEAN,
                         last_song_for_ducking : {[after |-> 0, buffer |-> None]},
                         ducked : {<<>>}] :
                     /\ Len(sh.roles) > 0
                     /\ Len(sh.songs) > 0
                     /\ sh.cli => ~sh.ducking_enabled}

\* the segment after roles[i] is an outro (line 202 of build_radio_show.py)
next_is_outro == show.i + 1 <= Len(show.roles) /\ show.roles[show.i + 1] = "outro"

\* line 1007 with the intro ducked like any other segment
apply_ducking_any_role(role) ==
    show.ducking_enabled /\ show.last_song_for_ducking.buffer # None

\* line 1007: whether create_ducked_segment is called for the voice segment
\* (build_radio_show.py has no ducking; there ducking_enabled is false)
apply_ducking(role) ==
    show.ducking_enabled /\ show.last_song_for_ducking.buffer # None /\ role # "intro"

\* One turn of the loop, without the song block.  final_show.append on None
\* raises AttributeError.  blocks: for each segment done, the songs of the
\* block appended after it, or -1 if none was appended.  ducked: for each
\* segment loaded, whether line 1007 sent it to create_ducked_segment.
\* last_song_for_ducking: the buffer, and the segment after whose block it
\* was kept; line 1021 sets it to None after an outro.
show_segment ==
    /\ show.pc = "for"
    /\ show.i <= Len(show.roles)
    /\ LET role == show.roles[show.i]
           ducked == Append(show.ducked, apply_ducking(role))
       IN  IF role # "intro" /\ ~show.have
           THEN show' = [show EXCEPT !.pc = "error", !.ducked = ducked]
           ELSE IF role = "outro"
           THEN show' = [show EXCEPT !.have = TRUE, !.i = @ + 1, !.blocks = Append(@, -1),
                                     !.ducked = ducked,
                                     !.last_song_for_ducking = [after |-> 0, buffer |-> None]]
           ELSE IF show.cli /\ role = "middle" /\ next_is_outro
           THEN show' = [show EXCEPT !.have = TRUE, !.i = @ + 1, !.blocks = Append(@, -1),
                                     !.ducked = ducked]
           ELSE show' = [show EXCEPT !.have = TRUE, !.pc = "block", !.ducked = ducked]
    /\ UNCHANGED <<is_building, pydub, threads, completes, outcome, call>>
    /\ UNCHANGED watchVars
    /\ UNCHANGED block

\* lines 1014-1016 and 1028-1030: the call of create_song_block_with_tracking
show_call_block ==
    /\ show.pc = "block"
    /\ ~show.cli
    /\ block.pc = "off"
    /\ block' = [pc |-> "call", songs |-> show.songs, count |-> show.count,
                 song_index |-> show.song_index, songs_added |-> 0, failed |-> 0,
                 last_song |-> None]
    /\ UNCHANGED buildVars
    /\ UNCHANGED watchVars

\* lines 1014-1017 and 1028-1031: the call has returned, the block is appended
show_append_block ==
    /\ show.pc = "block"
    /\ ~show.cli
    /\ block.pc = "returned"
    /\ show' = [show EXCEPT !.pc = "for", !.i = @ + 1,
                            !.songs = block.songs,
                            !.song_index = block.song_index,
                            !.blocks = Append(@, block.songs_added),
                            !.last_song_for_ducking =
                                [after |-> IF block.last_song = None THEN 0 ELSE show.i,
                                 buffer |-> block.last_song]]
    /\ block' = NoBlock
    /\ UNCHANGED <<is_building, pydub, threads, completes, outcome, call>>
    /\ UNCHANGED watchVars

\* lines 190-191 and 206-207 of build_radio_show.py
show_cli_block ==
    /\ show.pc = "block"
    /\ show.cli
    /\ LET ret == create_song_block(show.songs, show.count, show.song_index)
       IN  show' = [show EXCEPT !.pc = "for", !.i = @ + 1,
                                !.song_index = ret.song_index,
                                !.blocks = Append(@, ret.songs_added)]
    /\ UNCHANGED <<is_building, pydub, threads, completes, outcome, call>>
    /\ UNCHANGED watchVars
    /\ UNCHANGED block

\* lines 1033-1043 (lines 209-224 of build_radio_show.py): the loop is over
show_export ==
    /\ show.pc = "for"
    /\ show.i > Len(show.roles)
    /\ show' = [show EXCEPT !.pc = "exported"]
    /\ UNCHANGED <<is_building, pydub, threads, completes, outcome, call>>
    /\ UNCHANGED watchVars
    /\ UNCHANGED block

NextShow ==
    \/ show_segment
    \/ show_call_block
    \/ show_append_block
    \/ show_cli_block
    \/ show_export
    \/ block_call
    \/ block_turn
    \/ block_return

SpecShow == InitShow /\ [][NextShow]_vars

(***************************************************************************)
(* The crossfade-appends: final_show.append(voice, crossfade=crossfade)    *)
(* and final_show.append(song_block, crossfade=crossfade) of build_show    *)
(* (lines 1012-1031), block.append(song, crossfade=crossfade) of the song  *)
(* blocks (lines 1339 and 1370; src/build_radio_show.py, lines 113 and     *)
(* 133).  Durations are in units of 500 ms.                                *)
(***************************************************************************)
\* the longest buffer
MaxDuration == 6
\* the longest crossfade that is configured
MaxCrossfade == 8

\* AudioSegment.append of pydub: it raises ValueError when the crossfade is
\* longer than one of the two buffers, joins them end to end when the
\* crossfade is 0, and overlaps them by the crossfade otherwise.
append(left, right, crossfade) ==
    IF crossfade = 0 THEN [raised |-> FALSE, len |-> left + right]
    ELSE IF crossfade > left THEN [raised |-> TRUE, len |-> 0]
    ELSE IF crossfade > right THEN [raised |-> TRUE, len |-> 0]
    ELSE [raised |-> FALSE, len |-> left + right - crossfade]

InitAppend ==
    /\ InitBuild
    /\ InitWatch
    /\ block = NoBlock
    /\ show = NoShow
    /\ call \in [fn : {"append"}, pc : {"call"}, left : 0..MaxDuration,
                 right : 0..MaxDuration, crossfade : 0..MaxCrossfade,
                 ret : {[raised |-> FALSE, len |-> 0]}]

\* left.append(right, crossfade=crossfade): the crossfade that is configured
\* is passed as it is
append_call ==
    /\ call.fn = "append"
    /\ call.pc = "call"
    /\ call' = [call EXCEPT !.pc = "returned",
                            !.ret = append(call.left, call.right, call.crossfade)]
    /\ UNCHANGED <<is_building, pydub, threads, completes, outcome, show>>
    /\ UNCHANGED watchVars
    /\ UNCHANGED block

NextAppend == append_call

SpecAppend == InitAppend /\ [][NextAppend]_vars

(***************************************************************************)
(* create_ducked_segment (lines 1214-1269), on the durations, in ms, of    *)
(* the buffers it handles                                                  *)
(***************************************************************************)
\* len(voice)
VoiceLengths == {0, 150, 299, 300, 301, 450, 1000, 3000}
\* len(music_source)
MusicLengths == {0, 50, 100, 300, 5000}
\* duck_fade, and voice_fade_duration
Fades == {0, 50, 99, 100, 300, 500}
\* line 1230: below this overlap the voice is returned as it is
MinOverlap == 100

min(a, b) == IF a <= b THEN a ELSE b

\* len(seg[start:end]) for a buffer of n ms (pydub's AudioSegment slicing):
\* a position past the end is the end, a negative one counts from the end
position(n, v) == IF v < 0 THEN n + v ELSE v

slice(n, start, end) ==
    LET from == position(n, min(start, n))
        to == position(n, min(end, n))
    IN  IF to > from THEN to - from ELSE 0

\* len(music), padded with silence up to overlap_duration (lines 1237-1239
\* and 1252-1254); '+' joins two buffers end to end
padded(len, overlap_duration) ==
    IF len < overlap_duration THEN (overlap_duration - len) + len ELSE len

\* create_ducked_segment without the padding of a short music source
create_ducked_segment_no_padding(voice_length, music_length, duck_fade, voice_fade) ==
    LET overlap_duration == min(duck_fade + voice_fade, voice_length \div 3)
        music_for_intro == IF music_length >= overlap_duration
                           THEN slice(music_length, -overlap_duration, music_length)
                           ELSE music_length
        voice_middle == IF voice_length > overlap_duration * 2
                        THEN slice(voice_length, overlap_duration, -overlap_duration)
                        ELSE 0
        music_for_outro == IF music_length >= overlap_duration
                           THEN slice(music_length, 0, overlap_duration)
                           ELSE music_length
    IN  IF overlap_duration < MinOverlap
        THEN [len |-> voice_length, music |-> FALSE]
        ELSE [len |-> music_for_intro + voice_middle + music_for_outro, music |-> TRUE]

\* create_ducked_segment without the return of lines 1230-1232
create_ducked_segment_no_skip(voice_length, music_length, duck_fade, voice_fade) ==
    LET overlap_duration == min(duck_fade + voice_fade, voice_length \div 3)
        transition_in == padded(IF music_length >= overlap_duration
                                THEN slice(music_length, music_length - overlap_duration, music_length)
                                ELSE music_length, overlap_duration)
        voice_middle == IF voice_length > overlap_duration * 2
                        THEN slice(voice_length, overlap_duration, voice_length - overlap_duration)
                        ELSE 0
        transition_out == padded(IF music_length >= overlap_duration
                                 THEN slice(music_length, 0, overlap_duration)
                                 ELSE music_length, overlap_duration)
    IN  [len |-> transition_in + voice_middle + transition_out, music |-> TRUE]

\* What create_ducked_segment returns: the duration of the buffer, and
\* whether music is mixed into it.  overlay keeps the duration of the buffer
\* it is called on (the music), a gain and a fade keep the duration.
create_ducked_segment(voice_length, music_length, duck_fade, voice_fade) ==
    LET overlap_duration == min(duck_fade + voice_fade, voice_length \div 3)
        music_for_intro == IF music_length >= overlap_duration
                           THEN slice(music_length, -overlap_duration, music_length)
                           ELSE music_length
        transition_in == padded(music_for_intro, overlap_duration)
        voice_middle == IF voice_length > overlap_duration * 2
                        THEN slice(voice_length, overlap_duration, -overlap_duration)
                        ELSE 0
        music_for_outro == IF music_length >= overlap_duration
                           THEN slice(music_length, 0, overlap_duration)
                           ELSE music_length
        transition_out == padded(music_for_outro, overlap_duration)
    IN  IF overlap_duration < MinOverlap
        THEN [len |-> voice_length, music |-> FALSE]
        ELSE [len |-> transition_in + voice_middle + transition_out, music |-> TRUE]

InitDuck ==
    /\ InitBuild
    /\ InitWatch
    /\ block = NoBlock
    /\ show = NoShow
    /\ call \in [fn : {"create_ducked_segment"}, pc : {"call"},
                 voice_length : VoiceLengths, music_length : MusicLengths,
                 duck_fade : Fades, voice_fade : Fades,
                 ret : {[len |-> 0, music |-> FALSE]}]

\* line 1009: voice = self.create_ducked_segment(voice, last_song_for_ducking, ...)
duck_call ==
    /\ call.fn = "create_ducked_segment"
    /\ call.pc = "call"
    /\ call' = [call EXCEPT !.pc = "returned",
                            !.ret = create_ducked_segment(call.voice_length, call.music_length,
                                                          call.duck_fade, call.voice_fade)]
    /\ UNCHANGED <<is_building, pydub, threads, completes, outcome, show>>
    /\ UNCHANGED watchVars
    /\ UNCHANGED block

NextDuck == duck_call

SpecDuck == InitDuck /\ [][NextDuck]_vars

(***************************************************************************)
(* The freshness check: check_files_freshness (lines 1278-1296), called by *)
(* build_show (line 966), and the loop of check_and_build (lines 615-626). *)
(* A segment is given by its place in the list; its age, now - mtime, is   *)
(* in seconds.                                                             *)
(***************************************************************************)
\* ages of a segment file, in seconds
Ages == {0, 60, 299, 300, 301, 600, 900}
\* freshness_minutes (the spin box allows 1..30)
FreshnessMinutes == {1, 5, 10}
\* seconds in a minute: age_minutes = total_seconds() / 60
SecondsPerMinute == 60

AgeSeqs == UNION {[1..n -> Ages] : n \in 0..MaxSegs}

\* round(age_minutes, 1), in tenths of a minute.  No age of the model lies
\* halfway between two tenths.
round_tenths(seconds) == (seconds * 10 + SecondsPerMinute \div 2) \div SecondsPerMinute

\* the loop of lines 1288-1294, from segment i on, with '>=' for '>'
RECURSIVE stale_from_inclusive(_, _, _)
stale_from_inclusive(ages, max_age_minutes, i) ==
    IF i > Len(ages) THEN <<>>
    ELSE IF ages[i] >= max_age_minutes * SecondsPerMinute
    THEN <<[name |-> i, age |-> round_tenths(ages[i])]>>
             \o stale_from_inclusive(ages, max_age_minutes, i + 1)
    ELSE stale_from_inclusive(ages, max_age_minutes, i + 1)

\* the loop of lines 1288-1294, from segment i on:
\* age_minutes > max_age_minutes is ages[i] / 60 > max_age_minutes
RECURSIVE stale_from(_, _, _)
stale_from(ages, max_age_minutes, i) ==
    IF i > Len(ages) THEN <<>>
    ELSE IF ages[i] > max_age_minutes * SecondsPerMinute
    THEN <<[name |-> i, age |-> round_tenths(ages[i])]>>
             \o stale_from(ages, max_age_minutes, i + 1)
    ELSE stale_from(ages, max_age_minutes, i + 1)

\* check_files_freshness with 'age_minutes >= max_age_minutes' at line 1293
check_files_freshness_inclusive(ages, max_age_minutes) ==
    LET stale == stale_from_inclusive(ages, max_age_minutes, 1)
    IN  [all_fresh |-> Len(stale) = 0, stale_files |-> stale]

check_files_freshness(ages, max_age_minutes) ==
    LET stale == stale_from(ages, max_age_minutes, 1)
    IN  [all_fresh |-> Len(stale) = 0, stale_files |-> stale]

\* the loop of check_and_build, lines 619-626, from segment i on: fresh when
\* age_minutes <= max_age_minutes, stale otherwise
RECURSIVE readiness_from(_, _, _)
readiness_from(ages, max_age_minutes, i) ==
    IF i > Len(ages) THEN <<>>
    ELSE IF ages[i] <= max_age_minutes * SecondsPerMinute
    THEN readiness_from(ages, max_age_minutes, i + 1)
    ELSE <<[name |-> i, age |-> round_tenths(ages[i])]>>
             \o readiness_from(ages, max_age_minutes, i + 1)

InitFresh ==
    /\ InitBuild
    /\ InitWatch
    /\ block = NoBlock
    /\ show = NoShow
    /\ call \in [fn : {"check_files_freshness"}, pc : {"call"}, ages : AgeSeqs,
                 max_age_minutes : FreshnessMinutes,
                 ret : {[all_fresh |-> TRUE, stale_files |-> <<>>]},
                 readiness : {<<>>}]

\* Both checks of the same files at the same time: ret is what
\* check_files_freshness returns, readiness the stale_files of check_and_build.
freshness_call ==
    /\ call.fn = "check_files_freshness"
    /\ call.pc = "call"
    /\ call' = [call EXCEPT !.pc = "returned",
                            !.ret = check_files_freshness(call.ages, call.max_age_minutes),
                            !.readiness = readiness_from(call.ages, call.max_age_minutes, 1)]
    /\ UNCHANGED <<is_building, pydub, threads, completes, outcome, show>>
    /\ UNCHANGED watchVars
    /\ UNCHANGED block

NextFresh == freshness_call

SpecFresh == InitFresh /\ [][NextFresh]_vars

(***************************************************************************)
(* get_voice_segments (lines 1298-1308; src/build_radio_show.py, lines     *)
(* 61-72).  A name is a sequence of characters; the folder is the sequence *)
(* of its files in the order voice_dir.iterdir() yields them.              *)
(***************************************************************************)
\* the files of the folder
MaxFiles == 2
\* the identifiers configured (self.segments)
MaxIdentifiers == 2

Stems == {<<"a">>, <<"b">>, <<"a", "b">>, <<"A", "b">>}

Suffixes == {".mp3", ".OGG", ".txt"}

Identifiers == {<<"a">>, <<"a", "b">>, <<"B">>}

Files == [stem : Stems, suffix : Suffixes]

Folders == UNION {[1..n -> Files] : n \in 0..MaxFiles}

IdentifierSeqs == UNION {[1..n -> Identifiers] : n \in 0..MaxIdentifiers}

\* str.lower(), on a character, a name and a suffix
lower_char(c) == IF c = "A" THEN "a" ELSE IF c = "B" THEN "b" ELSE c

lower(name) == [k \in 1..Len(name) |-> lower_char(name[k])]

lower_suffix(suffix) ==
    IF suffix = ".OGG" THEN ".ogg" ELSE IF suffix = ".MP3" THEN ".mp3" ELSE suffix

\* str.startswith
startswith(name, prefix) ==
    /\ Len(prefix) <= Len(name)
    /\ \A k \in 1..Len(prefix) : name[k] = prefix[k]

\* the condition of line 1304
matches(file, segment_prefix) ==
    /\ startswith(lower(file.stem), lower(segment_prefix))
    /\ lower_suffix(file.suffix) \in VoiceExts

\* the inner loop, lines 1303-1306, from file j on: the first file that
\* matches (0: none)
RECURSIVE first_match(_, _, _)
first_match(folder, segment_prefix, j) ==
    IF j > Len(folder) THEN 0
    ELSE IF matches(folder[j], segment_prefix) THEN j
    ELSE first_match(folder, segment_prefix, j + 1)

\* the outer loop, line 1302, from identifier i on
RECURSIVE segments_from(_, _, _)
segments_from(identifiers, folder, i) ==
    IF i > Len(identifiers) THEN <<>>
    ELSE LET file == first_match(folder, identifiers[i], 1)
         IN  IF file > 0
             THEN <<[prefix |-> i, file |-> file]>> \o segments_from(identifiers, folder, i + 1)
             ELSE segments_from(identifiers, folder, i + 1)

\* What get_voice_segments returns: the list of (segment_prefix, file), and
\* nothing else; an identifier that no file matches is left out of the list
\* and is reported nowhere.
get_voice_segments(identifiers, folder) ==
    [segments |-> segments_from(identifiers, folder, 1), missing |-> <<>>]

\* the extensions in the order in which line 597 tries them
ExtOrder == <<".mp3", ".wav", ".m4a", ".ogg">>

\* candidate.exists(), line 599, for candidate = voice_dir / f"{segment}{ext}":
\* the file has that very name, or that name up to case on a file system
\* that ignores case
exists(file, segment, ext, case_sensitive) ==
    IF case_sensitive
    THEN file.stem = segment /\ file.suffix = ext
    ELSE lower(file.stem) = lower(segment) /\ lower_suffix(file.suffix) = ext

\* lines 597-601, from extension e on: the file of the first candidate that
\* exists (0: none)
RECURSIVE segment_file(_, _, _, _)
segment_file(folder, segment, e, case_sensitive) ==
    IF e > Len(ExtOrder) THEN 0
    ELSE IF \E j \in 1..Len(folder) : exists(folder[j], segment, ExtOrder[e], case_sensitive)
    THEN CHOOSE j \in 1..Len(folder) :
            /\ exists(folder[j], segment, ExtOrder[e], case_sensitive)
            /\ \A k \in 1..(j - 1) : ~exists(folder[k], segment, ExtOrder[e], case_sensitive)
    ELSE segment_file(folder, segment, e + 1, case_sensitive)

\* lines 595-606, from identifier i on: found and missing of check_and_build
RECURSIVE found_from(_, _, _, _)
found_from(identifiers, folder, i, case_sensitive) ==
    IF i > Len(identifiers) THEN [found |-> <<>>, missing |-> <<>>]
    ELSE LET file == segment_file(folder, identifiers[i], 1, case_sensitive)
             rest == found_from(identifiers, folder, i + 1, case_sensitive)
         IN  IF file > 0
             THEN [rest EXCEPT !.found = <<[prefix |-> i, file |-> file]>> \o @]
             ELSE [rest EXCEPT !.missing = <<i>> \o @]

InitResolve ==
    /\ InitBuild
    /\ InitWatch
    /\ block = NoBlock
    /\ show = NoShow
    /\ call \in [fn : {"get_voice_segments"}, pc : {"call"},
                 identifiers : IdentifierSeqs, folder : Folders,
                 ret : {[segments |-> <<>>, missing |-> <<>>]},
                 case_sensitive : BOOLEAN,
                 check_pc : {"call"},
                 check : {[found |-> <<>>, missing |-> <<>>]}]

\* line 957: voice_segments = self.get_voice_segments(voice_dir)
resolve_call ==
    /\ call.fn = "get_voice_segments"
    /\ call.pc = "call"
    /\ call' = [call EXCEPT !.pc = "returned",
                            !.ret = get_voice_segments(call.identifiers, call.folder)]
    /\ UNCHANGED <<is_building, pydub, threads, completes, outcome, show>>
    /\ UNCHANGED watchVars
    /\ UNCHANGED block

\* lines 595-606 of check_and_build, on the same identifiers and folder
resolve_check ==
    /\ call.fn = "get_voice_segments"
    /\ call.check_pc = "call"
    /\ call' = [call EXCEPT !.check_pc = "returned",
                            !.check = found_from(call.identifiers, call.folder, 1,
                                                 call.case_sensitive)]
    /\ UNCHANGED <<is_building, pydub, threads, completes, outcome, show>>
    /\ UNCHANGED watchVars
    /\ UNCHANGED block

NextResolve ==
    \/ resolve_call
    \/ resolve_check

SpecResolve == InitResolve /\ [][NextResolve]_vars

(***************************************************************************)
(* One build from its inputs to its end: build_show and build_test_show of *)
(* the GUI, and build_radio_show of src/build_radio_show.py (lines         *)
(* 143-234), which has no test mode and no freshness check.                *)
(***************************************************************************)
\* The loop of build_radio_show over the voice segments (lines 170-207),
\* from segment i on.  load_audio and final_show.append raise, and nothing
\* catches what they raise; create_song_block always returns.
RECURSIVE cli_assemble(_, _, _, _)
cli_assemble(roles, i, have, fail) ==
    IF i > Len(roles) THEN "exported"
    ELSE IF i = fail THEN "raised"
    ELSE IF roles[i] # "intro" /\ ~have THEN "raised"
    ELSE cli_assemble(roles, i + 1, TRUE, fail)

\* build_radio_show, lines 149-224: iterdir raises on a folder that does not
\* exist; no voice segment and no song end the run with a message.
build_radio_show(in) ==
    IF ~in.voice_dir_exists THEN "raised"
    ELSE IF Len(in.roles) = 0 THEN "error"
    ELSE IF ~in.songs_dir_exists THEN "raised"
    ELSE IF in.songs = 0 THEN "error"
    ELSE cli_assemble(in.roles, 1, FALSE, in.voice_fail)

\* the settings of the GUI that build_radio_show does not have
cli_input(in) ==
    ~in.test_mode /\ ~in.require_fresh_files /\ in.all_fresh /\ ~in.enable_ducking

InitRun ==
    /\ InitBuild
    /\ InitWatch
    /\ block = NoBlock
    /\ show = NoShow
    /\ call \in {c \in [fn : {"build"}, pc : {"call"}, cli : BOOLEAN, in : BuildInputs,
                        ret : {"none"}] :
                    /\ c.in.decodable <= c.in.songs
                    /\ c.in.voice_fail <= Len(c.in.roles)
                    /\ c.in.duck_fail => c.in.enable_ducking
                    /\ c.cli => cli_input(c.in)}

\* The build runs to its end, or into a song block loop that has none.
run_build ==
    /\ call.fn = "build"
    /\ call.pc = "call"
    /\ call' = [call EXCEPT !.pc = "returned",
                            !.ret = IF call.cli THEN build_radio_show(call.in)
                                    ELSE IF call.in.test_mode THEN test_build(call.in)
                                    ELSE regular_build(call.in)]
    /\ UNCHANGED <<is_building, pydub, threads, completes, outcome, show>>
    /\ UNCHANGED watchVars
    /\ UNCHANGED block

NextRun == run_build

SpecRun == InitRun /\ [][NextRun]_vars

(***************************************************************************)
(* The ducking of the test preview, written inline in build_test_show      *)
(* (lines 1134-1174).  Durations in ms, as in create_ducked_segment.       *)
(***************************************************************************)
\* The preview with ducking enabled: the overlap, the duration of
\* transition_in + voice_middle + transition_out, and whether music is mixed
\* under the voice.  There is no test of the overlap against a minimum, and
\* the overlap is bounded by half of song1_end, not by the voice.
test_ducking(voice_length, song1_end, song2_start, duck_fade, voice_fade) ==
    LET overlap_duration == min(duck_fade + voice_fade, song1_end \div 2)
        song1_tail == slice(song1_end, -overlap_duration, song1_end)
        transition_in == song1_tail
        voice_middle == slice(voice_length, overlap_duration, -overlap_duration)
        song2_intro == slice(song2_start, 0, overlap_duration)
        transition_out == song2_intro
    IN  [overlap |-> overlap_duration,
         len |-> transition_in + voice_middle + transition_out,
         music |-> TRUE]

InitPreview ==
    /\ InitBuild
    /\ InitWatch
    /\ block = NoBlock
    /\ show = NoShow
    /\ call \in [fn : {"build_test_show"}, pc : {"call"},
                 voice_length : VoiceLengths,
                 song1_end : MusicLengths, song2_start : MusicLengths,
                 duck_fade : Fades, voice_fade : Fades,
                 ret : {[overlap |-> 0, len |-> 0, music |-> FALSE]}]

\* lines 1134-1174, with enable_ducking set
preview_call ==
    /\ call.fn = "build_test_show"
    /\ call.pc = "call"
    /\ call' = [call EXCEPT !.pc = "returned",
                            !.ret = test_ducking(call.voice_length, call.song1_end,
                                                 call.song2_start, call.duck_fade,
                                                 call.voice_fade)]
    /\ UNCHANGED <<is_building, pydub, threads, completes, outcome, show>>
    /\ UNCHANGED watchVars
    /\ UNCHANGED block

NextPreview == preview_call

SpecPreview == InitPreview /\ [][NextPreview]_vars

(***************************************************************************)
(* Properties                                                              *)
(***************************************************************************)
\* worker threads that are building: not yet at a finally clause
building == threads.start + threads.spin

\* C1: at every moment at most one build worker thread is building, and
\* is_building is true whenever one is.
C1_OneBuildThread ==
    /\ building <= 1
    /\ building > 0 => is_building

\* C7: the song block loop gives up once as many attempts in a row have
\* failed as the pool has songs.
C7_BlockGivesUp == block.failed <= Len(block.songs)

\* C6: is_building never stays true for ever: a build that was started is
\* followed by is_building being false again.
C6_BuildingIsReset == is_building ~> ~is_building

\* no observer thread is inside on_segment_change
quiescent ==
    /\ handler.pc \notin InHandler
    /\ \A k \in OrphanIds : orphans[k].pc \notin InHandler

\* every event delivered has been handled to the end of on_segment_change,
\* and the observer thread waits for the next one
handled ==
    /\ handler.pc = "idle"
    /\ \A k \in OrphanIds : orphans[k].pc = "off"

\* C2: a burst of events, each arriving before the deadline of the timer the
\* one before set, leads to one evaluation that finds every segment present
\* and fresh (one transition into Building), not more.
C2_OneEvaluationPerBurst == pydub => burst.evals <= 1

\* C3: an auto-triggered build begins only when the last recognized event is
\* at least auto_watch_delay old (stated for a build that begins after a new
\* event has been handled to its end and has set its timer).
C3_QuietBeforeAutoBuild ==
    [][(handled /\ pending # {} /\ AutoStartBuild /\ threads' # threads)
          => last_change_time >= DelayTicks]_vars

\* C4: whenever no event is being handled, at most one debounce timer is
\* pending, watch_timer is None exactly when none is, and otherwise it names
\* the pending timer.
C4_OneTimer ==
    quiescent =>
        /\ Cardinality(pending) <= 1
        /\ watch_timer = 0 <=> pending = {}
        /\ pending # {} => watch_timer \in pending

\* C5: a call of start_build while a worker thread is building launches no
\* thread and leaves is_building as it is.
C5_RequestRejected ==
    [][(building > 0 /\ (ManualStartBuild \/ AutoStartBuild))
          => UNCHANGED <<threads, is_building>>]_vars

\* C8: when a debounce timer expires while the watcher is watching and a
\* configured segment resolves to no file, the watcher stays watching,
\* is_building does not change, no start_build is scheduled and no build
\* thread is launched.
C8_UnresolvedNoBuild ==
    [][\A id \in TimerIds, snap \in Snapshots :
          (is_watching /\ missing(snap) # {} /\ check_and_build(id, snap))
              => /\ is_watching'
                 /\ UNCHANGED <<is_building, start_timers, threads, completes>>]_vars

\* a timer has expired on a missing segment; the watcher watches on, with no
\* build and nothing scheduled
C8_Expired ==
    /\ is_watching
    /\ watch_status = "waiting"
    /\ handler.pc = "idle"
    /\ watch_timer = 0
    /\ pending = {}
    /\ start_timers = [wait |-> 0, due |-> 0]
    /\ nthreads = 0
    /\ ~is_building

\* C9: when a debounce timer expires while the watcher is watching, every
\* segment resolves and one is stale, the watcher stays watching, no build
\* is started, and nothing is scheduled: the expired timer is gone, no
\* start_build is pending; a debounce timer is only ever set by
\* on_segment_change (line 578), that is, by a file event.
C9_StaleNoRetry ==
    [][/\ \A id \in TimerIds, snap \in Snapshots :
            (/\ is_watching
             /\ missing(snap) = {}
             /\ stale_files(snap) # {}
             /\ check_and_build(id, snap))
                => /\ is_watching'
                   /\ timers' = [timers EXCEPT ![id] = -1]
                   /\ UNCHANGED <<is_building, start_timers, threads, completes>>
       /\ \A id \in TimerIds :
            (timers[id] < 0 /\ timers'[id] >= 0) => \E who \in 0..MaxObservers : line_578(who)]_vars

\* a timer has expired on a stale segment; the watcher waits for the next
\* event with no timer pending and no build
C9_Expired ==
    /\ is_watching
    /\ watch_status = "waiting_fresh"
    /\ handler.pc = "idle"
    /\ watch_timer = 0
    /\ pending = {}
    /\ start_timers = [wait |-> 0, due |-> 0]
    /\ nthreads = 0
    /\ ~is_building

C11_EventStartsTimer ==
    [][\A ext \in Exts \cap VoiceExts :
          (is_watching /\ on_segment_change(ext))
             => /\ handler'.pc = "h574"
                /\ last_change_time' = 0]_vars

\* C12: once stop_watching has returned and until start_watching is called,
\* no observer is subscribed and no debounce timer is pending, so that
\* check_and_build cannot fire.
C12_StoppedNoTimer == ~is_watching => (~observer /\ pending = {})

\* C13: when the loop over the segments is over, a song block has been
\* appended after every intro and every middle segment, and after no outro.
C13_BlockAfterIntroAndMiddle ==
    show.pc = "exported"
        => \A p \in 1..Len(show.roles) :
              show.blocks[p] >= 0 <=> show.roles[p] \in {"intro", "middle"}

\* C14: every crossfade-append overlaps the two buffers by at most the
\* shorter of them, whatever crossfade is configured, and never raises.
C14_CrossfadeClamped ==
    (call.fn = "append" /\ call.pc = "returned")
        => /\ ~call.ret.raised
           /\ call.left + call.right - call.ret.len <= call.left
           /\ call.left + call.right - call.ret.len <= call.right

\* the overlap of the call that is followed (line 1228)
overlap == min(call.duck_fade + call.voice_fade, call.voice_length \div 3)

\* C15: for every voice duration, every duck_fade and voice_fade and every
\* duration of the music source, create_ducked_segment returns a buffer as
\* long as the voice.
C15_DuckKeepsDuration ==
    (call.fn = "create_ducked_segment" /\ call.pc = "returned")
        => call.ret.len = call.voice_length

\* a voice was ducked under a music source shorter than the overlap
C15_DuckedShortMusic ==
    /\ call.fn = "create_ducked_segment"
    /\ call.pc = "returned"
    /\ call.ret.music
    /\ call.music_length < overlap
    /\ call.ret.len = call.voice_length

\* C16: when the overlap is below 100 ms, create_ducked_segment returns the
\* voice as it is, with no music mixed in.
C16_ShortOverlapSkipped ==
    (call.fn = "create_ducked_segment" /\ call.pc = "returned" /\ overlap < MinOverlap)
        => call.ret = [len |-> call.voice_length, music |-> FALSE]

\* a voice shorter than 300 ms was returned as it is although the fades add
\* up to 100 ms or more
C16_Skipped ==
    /\ call.fn = "create_ducked_segment"
    /\ call.pc = "returned"
    /\ call.voice_length > 0
    /\ call.duck_fade + call.voice_fade >= MinOverlap
    /\ overlap < MinOverlap
    /\ call.ret = [len |-> call.voice_length, music |-> FALSE]

\* C17: with a song in the pool that decodes, every song block holds exactly
\* count decoded songs, and the song index returned lies in 0..len(pool).
C17_BlockHasCountSongs ==
    decoding(show.songs) # {}
        => /\ \A p \in 1..Len(show.blocks) : show.blocks[p] \in {-1, show.count}
           /\ show.song_index \in 0..Len(show.songs)

\* C18: at each wraparound of the song index the pool is put in an order
\* that differs from the order of the lap just finished.
C18_NewLapNewOrder ==
    [][(block_turn /\ block.song_index >= Len(block.songs))
          => block'.songs # block.songs]_vars

\* the segments of the call that is followed whose age exceeds max_age_minutes
too_old == {i \in 1..Len(call.ages) : call.ages[i] > call.max_age_minutes * SecondsPerMinute}

\* C19: all_fresh is true exactly when no segment is older than
\* max_age_minutes; stale_files lists exactly the segments that are older,
\* in segment order, each with its age to the nearest tenth of a minute; a
\* segment whose age equals max_age_minutes is fresh; and the loop of
\* check_and_build finds the same stale segments.
C19_FreshnessGate ==
    (call.fn = "check_files_freshness" /\ call.pc = "returned")
        => LET stale == call.ret.stale_files
           IN  /\ call.ret.all_fresh <=> too_old = {}
               /\ {stale[k].name : k \in 1..Len(stale)} = too_old
               /\ \A k \in 1..Len(stale) : \A j \in 1..Len(stale) :
                      k < j => stale[k].name < stale[j].name
               /\ \A k \in 1..Len(stale) :
                      /\ stale[k].age * 6 - call.ages[stale[k].name] <= 3
                      /\ call.ages[stale[k].name] - stale[k].age * 6 <= 3
               /\ call.readiness = stale

\* a check has found a stale segment next to one that is exactly
\* max_age_minutes old, which it took for fresh
C19_StaleAndBoundary ==
    /\ call.fn = "check_files_freshness"
    /\ call.pc = "returned"
    /\ ~call.ret.all_fresh
    /\ Len(call.ret.stale_files) = 1
    /\ \E i \in 1..Len(call.ages) : call.ages[i] = call.max_age_minutes * SecondsPerMinute

\* the identifiers of the call that is followed that some file matches
resolvable ==
    {i \in 1..Len(call.identifiers) :
        \E j \in 1..Len(call.folder) : matches(call.folder[j], call.identifiers[i])}

\* C20: the segments returned are, in configured order, exactly the
\* identifiers that some file matches, each with the first such file of the
\* scan, and every other identifier is reported as missing.
C20_ResolvePartitions ==
    (call.fn = "get_voice_segments" /\ call.pc = "returned")
        => LET found == call.ret.segments
               reported == call.ret.missing
           IN  /\ {found[k].prefix : k \in 1..Len(found)} = resolvable
               /\ \A k \in 1..Len(found) : \A j \in 1..Len(found) :
                      k < j => found[k].prefix < found[j].prefix
               /\ \A k \in 1..Len(found) :
                      /\ matches(call.folder[found[k].file], call.identifiers[found[k].prefix])
                      /\ \A j \in 1..(found[k].file - 1) :
                             ~matches(call.folder[j], call.identifiers[found[k].prefix])
               /\ {reported[k] : k \in 1..Len(reported)}
                      = (1..Len(call.identifiers)) \ resolvable

\* a build of the GUI has come to its end
built == call.fn = "build" /\ call.pc = "returned" /\ ~call.cli

\* C21: with fresh files required and a stale voice segment, a build of the
\* GUI, regular or test preview, exports no file.
C21_StaleAborts ==
    (built /\ call.in.require_fresh_files /\ ~call.in.all_fresh)
        => call.ret # "exported"

\* a build, of the GUI or of build_radio_show, has come to its end
ran == call.fn = "build" /\ call.pc = "returned"

\* C22: a build with the voice folder or the songs folder missing, with no
\* voice segment resolved or with an empty song pool ends in an error (a
\* message, or an exception reported) and does not reach its export.
C22_MissingInputsAbort ==
    (/\ ran
     /\ \/ ~call.in.voice_dir_exists
        \/ ~call.in.songs_dir_exists
        \/ Len(call.in.roles) = 0
        \/ call.in.songs = 0)
        => call.ret \in {"error", "raised"}

\* a regular build with both folders and a voice segment, and no song
C22_EmptyPoolAborted ==
    /\ built
    /\ ~call.in.test_mode
    /\ call.in.voice_dir_exists
    /\ call.in.songs_dir_exists
    /\ Len(call.in.roles) > 0
    /\ call.in.all_fresh
    /\ call.in.songs = 0
    /\ call.ret = "error"

\* C23: a buffer operation that fails while a voice segment is ducked does
\* not change how the build ends: the build ends as it does on the same
\* inputs with no such failure (it exports when that one exports).
C23_DuckFailureNotPropagated ==
    (built /\ call.in.enable_ducking /\ call.in.duck_fail)
        => call.ret = IF call.in.test_mode
                      THEN test_build([call.in EXCEPT !.duck_fail = FALSE])
                      ELSE regular_build([call.in EXCEPT !.duck_fail = FALSE])

\* C24: in a build of the GUI, between two segments last_song_for_ducking
\* is None before the first segment and after an outro, and after an intro
\* or a middle segment it is the last song added to the block that followed
\* that segment; a segment is sent to the ducking step exactly when ducking
\* is enabled, the segment is not an intro and the segment before it, if
\* any, left a last song (it was an intro or a middle segment).
C24_DuckingBed ==
    ~show.cli =>
        /\ show.pc \in {"for", "exported"} =>
              LET k == show.i - 1
                  kept == show.last_song_for_ducking
              IN  IF k = 0 \/ show.roles[k] = "outro"
                  THEN kept.buffer = None
                  ELSE /\ kept.after = k
                       /\ kept.buffer.song = show.blocks[k]
                       /\ kept.buffer.song > 0
        /\ \A j \in 1..Len(show.ducked) :
              show.ducked[j] = (/\ show.ducking_enabled
                                /\ show.roles[j] # "intro"
                                /\ j > 1
                                /\ show.roles[j - 1] # "outro")

\* intro, middle, outro with ducking enabled: the middle and the outro were
\* ducked, and no song is kept after the outro
C24_DuckedMiddleAndOutro ==
    /\ ~show.cli
    /\ show.pc = "exported"
    /\ show.ducking_enabled
    /\ show.roles = <<"intro", "middle", "outro">>
    /\ show.ducked = <<FALSE, TRUE, TRUE>>
    /\ show.last_song_for_ducking.buffer = None

\* C27: the last_song that create_song_block_with_tracking returns is the
\* buffer of the last song added to the block as it was decoded, before the
\* fades, and None for an empty pool.
C27_LastSongIsRaw ==
    block.pc = "returned" =>
        block.last_song = IF Len(block.songs) = 0 THEN None
                          ELSE [song |-> block.songs_added, faded |-> FALSE]

\* C30: the loop over a non-empty list of resolved segments never fails,
\* whatever the role of the first segment.
C30_AssemblerCompletes == show.pc # "error"

\* C25: the readiness check of check_and_build resolves every identifier as
\* get_voice_segments does for the build: the same identifiers are found,
\* each with the same file.
C25_SameResolution ==
    (call.fn = "get_voice_segments" /\ call.pc = "returned" /\ call.check_pc = "returned")
        => call.check.found = call.ret.segments

\* C26: in the test preview with ducking enabled the overlap is
\* min(duck_fade + voice_fade, voice_length / 3), no music is mixed in when
\* that overlap is under 100 ms, and transition_in + voice_middle +
\* transition_out lasts exactly as long as the voice.
C26_PreviewDuckKeepsVoice ==
    (call.fn = "build_test_show" /\ call.pc = "returned") =>
        LET overlap_duration ==
                min(call.duck_fade + call.voice_fade, call.voice_length \div 3)
        IN  /\ call.ret.overlap = overlap_duration
            /\ overlap_duration < MinOverlap => ~call.ret.music
            /\ call.ret.len = call.voice_length

\* a step of on_segment_change: the event is taken, or one of its lines runs
handler_step ==
    \/ \E ext \in Exts : on_segment_change(ext)
    \/ \E who \in 0..MaxObservers :
          \/ line_574(who)
          \/ line_575(who)
          \/ call_575(who)
          \/ line_578(who)
          \/ line_579(who)

\* C28: a step of on_segment_change leaves is_building, the build threads,
\* their outcome, the pending start of an auto-build, is_watching and the
\* subscription as they are; stop_watching leaves is_building, the build
\* threads, their outcome, the pending start of an auto-build and the last
\* change time as they are.
C28_WatcherFrame ==
    [][/\ handler_step => UNCHANGED <<buildVars, start_timers, is_watching, observer>>
       /\ (\E enabled \in BOOLEAN : stop_watching(enabled))
             => UNCHANGED <<buildVars, start_timers, last_change_time>>]_vars

\* a build is in flight, the watcher has been stopped, and a thread that
\* stop_watching left behind is inside on_segment_change
C28_StoppedWhileBuilding ==
    /\ is_building
    /\ building > 0
    /\ ~is_watching
    /\ watch_status = "stopped"
    /\ \E k \in OrphanIds : orphans[k].pc \in InHandler

\* C29: a build whose list of voice segments holds one that does not decode
\* never reaches its export; when the songs decode, so that the loop comes
\* to that segment, the build ends in an error.  In the test preview the
\* segment is the one the preview loads.
C29_VoiceFailureIsFatal ==
    (/\ ran
     /\ call.in.voice_fail \in 1..Len(call.in.roles)
     /\ call.in.test_mode => call.in.voice_fail = test_segment(call.in.roles))
        => /\ call.ret # "exported"
           /\ call.in.decodable > 0 => call.ret \in {"error", "raised"}

\* intro, songs, then a middle segment whose file does not decode: the
\* regular build ended in an error
C29_SecondSegmentFailed ==
    /\ built
    /\ ~call.in.test_mode
    /\ call.in.voice_dir_exists
    /\ call.in.songs_dir_exists
    /\ call.in.all_fresh
    /\ call.in.roles = <<"intro", "middle">>
    /\ call.in.voice_fail = 2
    /\ call.in.decodable > 0
    /\ call.ret = "error"

\* C31: a build is started by the deferred start_build of check_and_build
\* only while the watcher is watching: once stop_watching has run, no
\* auto-triggered build starts until start_watching has run again.
C31_NoAutoBuildAfterStop ==
    [][(AutoStartBuild /\ threads' # threads) => is_watching]_vars

\* C32: is_watching is true exactly when self.observer is set, and that
\* observer is then the only one started and not stopped; an Observer is
\* started only when is_watching is false; start_watching and toggle_watch
\* with a voice folder that does not exist, when not watching, leave the
\* watcher stopped, with no observer and with auto_watch_enabled false.
C32_WatchingIffObserver ==
    /\ [](/\ is_watching <=> observer
          /\ observers = IF observer THEN 1 ELSE 0)
    /\ [][/\ observers' > observers => ~is_watching
          /\ (/\ ~is_watching
              /\ \/ start_watching(FALSE, auto_watch_enabled)
                 \/ toggle_watch(FALSE))
                => (~is_watching' /\ ~observer' /\ observers' = 0 /\ ~auto_watch_enabled')]_vars

\* the watcher was stopped after an event and watches again: the check box
\* is set, one observer is started, and no timer and no build is left
C32_WatchingAgain ==
    /\ auto_watch_enabled
    /\ is_watching
    /\ observer
    /\ observers = 1
    /\ event = ".mp3"
    /\ last_change_time >= 0
    /\ handler.pc = "idle"
    /\ watch_status = "watching"
    /\ watch_timer = 0
    /\ pending = {}
    /\ ~is_building
    /\ nthreads = 0

====
